---- MODULE Spec2Model ----
(***************************************************************************)
(* The crime-grade fetch pipeline of app/crimegrade_search.py:             *)
(*   _make_brightdata_request  one proxied GET with recursive retry,       *)
(*   search_crime_grade        fetch + parse of one zipcode (the worker),  *)
(*   process_zipcodes          resume from the results file, fan out over  *)
(*                             a thread pool, merge, checkpoint, final     *)
(*                             save.                                       *)
(* and the school cache of app/details.py (_cache, _cache_dirty, the cache *)
(* file, get_property_details_by_zpid, _save_cache_to_disk).               *)
(* Spec        is one run of process_zipcodes.                             *)
(* SpecFetch   is one call of search_crime_grade (and so one call of       *)
(*             _make_brightdata_request) with its attempts recorded.       *)
(* SpecLive    is Spec from fewer initial states, with weak fairness.      *)
(* SpecSave    is Spec with the writes of the results file recorded.       *)
(* SpecDetails is a process that imports app/details.py and calls it from  *)
(*             two threads.                                                *)
(* SpecParse   is Spec with the requests of the run recorded.              *)
(* SpecSearch  is one call of search_properties of app/zillow.py.          *)
(* SpecUrl     is SpecDetails with the requests of each call recorded.     *)
(* SpecLock    is a run of process_zipcodes, or a process that imports      *)
(*             app/details.py, with the lock of each recorded.             *)
(***************************************************************************)
EXTENDS Integers, Sequences, FiniteSets, TLC

\* ------------------------------------------------------------------ bounds
\* Longest list of zipcodes handed to process_zipcodes.
MaxKeys == 2
\* The max_workers and save_batch_size arguments tried: a pool smaller than
\* the work and one as large, a checkpoint at every completion and at every
\* second one.
WorkerCounts == {1, 2}
BatchSizes == {1, 2}

\* --------------------------------------------------------------- constants
MAX_RETRIES == 3

\* Python's None / JSON null.
Null == "null"

\* ------------------------------------------------------------------- keys
\* A raw element of the zipcodes list: a str (a sequence of characters) or,
\* since the code applies str() to it, an int.
RawStr(s) == [t |-> "str", n |-> 0, s |-> s]
RawInt(n) == [t |-> "int", n |-> n, s |-> << >>]

\* The raw elements the lists are drawn from: a blank line, " 1\n" (a line as
\* file.readlines() gives it, indented), "2" and the int 1.
RawKeys ==
    { RawStr(<<"\n">>), RawStr(<<" ", "1", "\n">>), RawStr(<<"2">>), RawInt(1) }

Whitespace == {" ", "\n", "\t", "\r"}

DigitChars == <<"0", "1", "2", "3", "4", "5", "6", "7", "8", "9">>

RECURSIVE IntToStr(_)
IntToStr(n) ==
    IF n < 10 THEN <<DigitChars[n + 1]>>
    ELSE IntToStr(n \div 10) \o <<DigitChars[(n % 10) + 1]>>

\* str(zipcode_raw)
PyStr(raw) == IF raw.t = "int" THEN IntToStr(raw.n) ELSE raw.s

RECURSIVE LStrip(_)
LStrip(s) ==
    IF s # << >> /\ Head(s) \in Whitespace THEN LStrip(Tail(s)) ELSE s

RECURSIVE RStrip(_)
RStrip(s) ==
    IF s # << >> /\ s[Len(s)] \in Whitespace
    THEN RStrip(SubSeq(s, 1, Len(s) - 1)) ELSE s

\* str.strip()
Strip(s) == RStrip(LStrip(s))

\* zipcode = str(zipcode_raw).strip()
Normalize(raw) == Strip(PyStr(raw))

\* ---------------------------------------------------------------- mappings
EmptyDict == [k \in {} |-> Null]

\* d[k] = v on a Python dict.
Put(d, k, v) == [x \in (DOMAIN d) \cup {k} |-> IF x = k THEN v ELSE d[x]]

\* The record a stored file may hold and the record a fresh parse yields are
\* kept apart so that a re-fetch of a stored key shows in the store.
StoredRecords == {"A"}
ParsedRecords == {"B"}

\* ------------------------------------------------------------ durable file
Missing == [state |-> "missing", data |-> EmptyDict]
Corrupt == [state |-> "corrupt", data |-> EmptyDict]
JsonDump(d) == [state |-> "ok", data |-> d]

\* The results file before the run: absent, unreadable, or a JSON object
\* that holds the key "1" with null or with a record.
StoredFiles ==
    { Missing, Corrupt }
      \cup { JsonDump(Put(EmptyDict, <<"1">>, v)) : v \in StoredRecords \cup {Null} }

\* results after "Load existing results".
LoadResults(f) == IF f.state = "ok" THEN f.data ELSE EmptyDict

\* A write of the store with open(file, 'w') + json.dump: it succeeds, open()
\* raises IOError (file untouched), or the dump fails after the truncation.
IOOutcomes == {"ok", "open_fails", "write_fails"}
\* Mutant of WriteFile: only the entries of d that were not in the file are
\* written.
WriteFileNewOnly(f, d, io) ==
    CASE io = "ok" ->
           JsonDump([k \in (DOMAIN d) \ (DOMAIN LoadResults(f)) |-> d[k]])
      [] io = "open_fails" -> f
      [] OTHER -> Corrupt

WriteFile(f, d, io) ==
    CASE io = "ok" -> JsonDump(d)
      [] io = "open_fails" -> f
      [] OTHER -> Corrupt

\* ---------------------------------------------------------------- variables
VARIABLES
    \* arguments and module configuration
    zipcodes, max_workers, save_batch_size, credentials, log_writable,
    \* durable state
    output_json_file, failed_zipcodes_log,
    \* locals of process_zipcodes (the main thread)
    mpc, results, zipcodes_to_process, processed_count, processed_in_batch,
    total_failed, completed, returned, final_save,
    \* one entry per submitted future (the worker threads)
    pc, retry_count, future,
    \* history: results as loaded; in SpecFetch the outcome of each attempt,
    \* each backoff wait and what _make_brightdata_request returned; in
    \* SpecSave the outcome of each write of the results file
    loaded, trace, waits, fetched, writes,
    \* app/details.py: the school cache file, the module globals _cache and
    \* _cache_dirty, the phase of the process (import, running, exited)
    cache_file, cache, cache_dirty, proc,
    \* one entry per caller thread of get_property_details_by_zpid: its
    \* position, zpid_str, details and what its last call ended in
    cpc, czpid, cdetails, creturn,
    \* history of details.py: calls started, the zpid of every HTTP request
    \* sent, calls of save_school_cache, the outcome of the write made at
    \* the exit
    calls, http_log, flushes, exit_save,
    \* app/zillow.py: USE_PROXY, the totalPages the server reports, the
    \* locals page, last_page and search_results of search_properties, its
    \* position, and the history of the page requests it sent
    use_proxy, total_pages, page, last_page, search_results, spc, requested,
    \* the holder of the lock of process_zipcodes (line 189), the holder of
    \* _cache_lock of app/details.py (line 43), and the future as_completed
    \* has handed to the main thread (0: none)
    lock, cache_lock, yielded

inputVars == <<zipcodes, max_workers, save_batch_size, credentials, log_writable>>
fileVars == <<output_json_file, failed_zipcodes_log>>
mainVars ==
    <<mpc, results, zipcodes_to_process, processed_count, processed_in_batch,
      total_failed, completed, returned, final_save, loaded>>
taskVars == <<pc, retry_count, future>>
histVars == <<trace, waits, fetched, writes>>
crimeVars == <<inputVars, fileVars, mainVars, taskVars, histVars>>
cacheVars ==
    <<cache_file, cache, cache_dirty, proc, cpc, czpid, cdetails, creturn,
      calls, http_log, flushes, exit_save>>
searchVars ==
    <<use_proxy, total_pages, page, last_page, search_results, spc, requested>>
lockVars == <<lock, cache_lock, yielded>>
vars == <<crimeVars, cacheVars, searchVars, lockVars>>

\* Optional[Response]: << >> is None, <<o>> the response of outcome o.
NoResponse == << >>
Response(o) == <<o>>

\* ------------------------------------------------ _make_brightdata_request
\* What one requests.get can end in: a response with a status (a 200 with a
\* body that holds the crime section, "page", or one that does not,
\* "captcha"), a 203 with the page as relayed by a transforming proxy, another
\* status with an empty body, a Timeout, another RequestException (connection
\* error), or an exception that is not a RequestException (unexpected).
Statuses == {204, 403, 404, 429, 500, 503}
Outcomes ==
    { [kind |-> "response", status |-> 200, body |-> b] : b \in {"page", "captcha"} }
      \cup { [kind |-> "response", status |-> 203, body |-> "page"] }
      \cup { [kind |-> "response", status |-> s, body |-> ""] : s \in Statuses }
      \cup { [kind |-> k, status |-> 0, body |-> ""] :
               k \in {"timeout", "error", "unexpected"} }

\* Mutant of Branch: the except clauses in the other order, so that a Timeout
\* is caught as a RequestException and not retried.
BranchTimeoutFails(o) ==
    CASE o.kind = "timeout" -> "fail"
      [] o.kind = "error" -> "fail"
      [] o.kind = "unexpected" -> "raise"
      [] o.status = 429 -> "retry"
      [] o.status = 403 -> "fail"
      [] o.status >= 500 -> "retry"
      [] o.status >= 400 -> "fail"
      [] OTHER -> "ok"

\* Mutant of Branch: a 403 handled like a 429.
Branch403Retried(o) ==
    CASE o.kind = "timeout" -> "retry"
      [] o.kind = "error" -> "fail"
      [] o.kind = "unexpected" -> "raise"
      [] o.status = 429 -> "retry"
      [] o.status = 403 -> "retry"
      [] o.status >= 500 -> "retry"
      [] o.status >= 400 -> "fail"
      [] OTHER -> "ok"

\* The branch of the function body the outcome takes (lines 61-104).
\*   "retry"  429, >= 500 or Timeout: retried while retry_count < MAX_RETRIES
\*   "fail"   403, raise_for_status() raising (4xx), other RequestException
\*   "ok"     the response is returned
\*   "raise"  not a RequestException: no except clause matches
Branch(o) ==
    CASE o.kind = "timeout" -> "retry"
      [] o.kind = "error" -> "fail"
      [] o.kind = "unexpected" -> "raise"
      [] o.status = 429 -> "retry"
      [] o.status = 403 -> "fail"
      [] o.status >= 500 -> "retry"
      [] o.status >= 400 -> "fail"
      [] OTHER -> "ok"

\* Mutant of MayRetry: the comparison off by one.
MayRetryInclusive(rc) == rc <= MAX_RETRIES

\* if retry_count < MAX_RETRIES (lines 65, 79, 95)
MayRetry(rc) == rc < MAX_RETRIES

\* Mutant of AttemptEnd: with the retries used up the function falls through
\* to "return response" instead of returning None.
AttemptEndKeepsLast(o, rc) ==
    CASE Branch(o) = "retry" /\ rc < MAX_RETRIES -> [next |-> "sleep", value |-> NoResponse]
      [] Branch(o) = "retry" /\ o.kind = "response" -> [next |-> "return", value |-> Response(o)]
      [] Branch(o) = "ok" -> [next |-> "return", value |-> Response(o)]
      [] Branch(o) = "raise" -> [next |-> "raise", value |-> NoResponse]
      [] OTHER -> [next |-> "return", value |-> NoResponse]

\* How the call with retry_count = rc goes on after an attempt ending in o:
\* it sleeps and calls itself, returns (value is the return value), or lets
\* the exception through.
AttemptEnd(o, rc) ==
    LET b == Branch(o) IN
    CASE b = "retry" /\ MayRetry(rc) -> [next |-> "sleep", value |-> NoResponse]
      [] b = "ok" -> [next |-> "return", value |-> Response(o)]
      [] b = "raise" -> [next |-> "raise", value |-> NoResponse]
      [] OTHER -> [next |-> "return", value |-> NoResponse]

\* random.uniform(0.5, 1.5), in tenths of a second: a + (b - a) * random(),
\* which rounds to the end point 1.5 for the largest value of random().
Jitters == {5, 10, 15}

RECURSIVE Pow2(_)
Pow2(n) == IF n = 0 THEN 1 ELSE 2 * Pow2(n - 1)

\* Mutant of WaitTime: the backoff grows linearly with the retry count.
WaitTimeLinear(o, rc, j) == IF o.kind = "timeout" THEN 10 ELSE 10 * (rc + 1) + j

\* wait_time in tenths of a second (lines 66, 80, 96).
WaitTime(o, rc, j) == IF o.kind = "timeout" THEN 10 ELSE 10 * Pow2(rc) + j

\* ------------------------------------------------------- search_crime_grade
\* The parse of a 200 body (lines 122-176): the record, or None when the
\* crime section is missing.
ParseBody(body) == IF body = "page" THEN "B" ELSE Null

\* response is None or response.status_code != 200 (line 115)
NotSuccessful(r) == r = NoResponse \/ r[1].status # 200

\* search_crime_grade from line 115 on, given what the helper returned.
SearchResult(r) == IF NotSuccessful(r) THEN Null ELSE ParseBody(r[1].body)

\* ------------------------------------------------------------ worker threads
Tasks == DOMAIN pc

\* The threads of the pool that are inside search_crime_grade.
Running == {u \in Tasks : pc[u] = "request"}

\* A pool thread takes the next queued future (FIFO work queue, at most
\* max_workers threads) and calls search_crime_grade(zipcode), which calls
\* _make_brightdata_request(target_url) with retry_count = 0. Without
\* credentials that call returns None at once (lines 42-44) and the worker
\* returns None (line 118).
StartWorker(t) ==
    /\ mpc = "loop"
    /\ t \in Tasks
    /\ pc[t] = "queued"
    /\ \A u \in Tasks : u < t => pc[u] # "queued"
    /\ Cardinality(Running) < max_workers
    /\ IF credentials
       THEN /\ pc' = [pc EXCEPT ![t] = "request"]
            /\ UNCHANGED future
       ELSE /\ pc' = [pc EXCEPT ![t] = "finished"]
            /\ future' = [future EXCEPT ![t] = SearchResult(NoResponse)]
    /\ UNCHANGED retry_count
    /\ UNCHANGED <<inputVars, fileVars, mainVars>>

\* What an attempt ending in o leads the worker thread to, at retry_count rc:
\*   "sleep"   time.sleep(wait_time), then the function calls itself with
\*             retry_count + 1 (lines 68-69, 82-83, 96-97); the credentials,
\*             checked again, are the ones the first call found;
\*   "return"  the helper returns, search_crime_grade parses and returns
\*             result;
\*   "raise"   the exception passes through both and the future holds it.
WorkerEnd(o, rc) ==
    LET e == AttemptEnd(o, rc) IN
    [next |-> e.next,
     result |-> IF e.next = "return" THEN SearchResult(e.value) ELSE Null]

\* Mutant of WorkerStep: the recursive call passes a count that never reaches
\* MAX_RETRIES.
WorkerStepWraps(t, e) ==
    /\ t \in Tasks
    /\ pc[t] = "request"
    /\ CASE e.next = "sleep" ->
              /\ retry_count' = [retry_count EXCEPT ![t] = (@ + 1) % MAX_RETRIES]
              /\ UNCHANGED <<pc, future>>
         [] e.next = "return" ->
              /\ pc' = [pc EXCEPT ![t] = "finished"]
              /\ future' = [future EXCEPT ![t] = e.result]
              /\ retry_count' = [retry_count EXCEPT ![t] = 0]
         [] OTHER ->
              /\ pc' = [pc EXCEPT ![t] = "raised"]
              /\ retry_count' = [retry_count EXCEPT ![t] = 0]
              /\ UNCHANGED future
    /\ UNCHANGED <<inputVars, fileVars, mainVars>>

\* requests.get has returned or raised and the thread runs on to its next
\* request or to the end of the worker, as e says.
WorkerStep(t, e) ==
    /\ t \in Tasks
    /\ pc[t] = "request"
    /\ CASE e.next = "sleep" ->
              /\ retry_count' = [retry_count EXCEPT ![t] = @ + 1]
              /\ UNCHANGED <<pc, future>>
         [] e.next = "return" ->
              /\ pc' = [pc EXCEPT ![t] = "finished"]
              /\ future' = [future EXCEPT ![t] = e.result]
              /\ retry_count' = [retry_count EXCEPT ![t] = 0]
         [] OTHER ->
              /\ pc' = [pc EXCEPT ![t] = "raised"]
              /\ retry_count' = [retry_count EXCEPT ![t] = 0]
              /\ UNCHANGED future
    /\ UNCHANGED <<inputVars, fileVars, mainVars>>

\* One requests.get of task t ending in outcome o.
HttpAttempt(t, o) == WorkerStep(t, WorkerEnd(o, retry_count[t]))

\* --------------------------------------------------------- process_zipcodes
\* Mutant of AlreadyProcessed: the test on the stored value inverted.
AlreadyProcessedInverted(z, res) == z \in DOMAIN res /\ res[z] = Null

\* zipcode in results and results[zipcode] is not None (line 212)
AlreadyProcessed(z, res) == z \in DOMAIN res /\ res[z] # Null

\* The loop of lines 207-215: the keys left to process, in list order.
RECURSIVE ToProcess(_, _)
ToProcess(zs, res) ==
    IF zs = << >> THEN << >>
    ELSE LET z == Normalize(Head(zs))
             rest == ToProcess(Tail(zs), res)
         IN IF z = << >> THEN rest
            ELSE IF AlreadyProcessed(z, res) THEN rest
            ELSE <<z>> \o rest

\* processed_count after the same loop.
RECURSIVE CountProcessed(_, _)
CountProcessed(zs, res) ==
    IF zs = << >> THEN 0
    ELSE LET z == Normalize(Head(zs))
             rest == CountProcessed(Tail(zs), res)
         IN IF z # << >> /\ AlreadyProcessed(z, res) THEN rest + 1 ELSE rest

\* Lines 192-202.
LoadExisting ==
    /\ mpc = "start"
    /\ results' = LoadResults(output_json_file)
    /\ loaded' = LoadResults(output_json_file)
    /\ mpc' = "prepare"
    /\ UNCHANGED <<zipcodes_to_process, processed_count, processed_in_batch,
                   total_failed, completed, returned, final_save>>
    /\ UNCHANGED <<inputVars, fileVars, taskVars>>

\* Lines 204-221 with nothing left to process: return results.
ReturnNothingToDo ==
    /\ mpc = "prepare"
    /\ ToProcess(zipcodes, results) = << >>
    /\ processed_count' = CountProcessed(zipcodes, results)
    /\ returned' = results
    /\ mpc' = "done"
    /\ UNCHANGED <<results, zipcodes_to_process, processed_in_batch, total_failed,
                   completed, final_save, loaded>>
    /\ UNCHANGED <<inputVars, fileVars, taskVars>>

\* Lines 204-231: one future per element of zipcodes_to_process.
Submit ==
    /\ mpc = "prepare"
    /\ ToProcess(zipcodes, results) # << >>
    /\ zipcodes_to_process' = ToProcess(zipcodes, results)
    /\ processed_count' = CountProcessed(zipcodes, results)
    /\ pc' = [t \in 1..Len(ToProcess(zipcodes, results)) |-> "queued"]
    /\ retry_count' = [t \in 1..Len(ToProcess(zipcodes, results)) |-> 0]
    /\ future' = [t \in 1..Len(ToProcess(zipcodes, results)) |-> Null]
    /\ mpc' = "loop"
    /\ UNCHANGED <<results, processed_in_batch, total_failed, completed, returned,
                   final_save, loaded>>
    /\ UNCHANGED <<inputVars, fileVars>>

\* A line of the failure log: the key and whether it is marked (exception).
LogLine(z, exc) == <<z, exc>>

\* open(failed_zipcodes_log, 'a') + write; when the log cannot be opened the
\* IOError is logged and dropped (lines 252-256, 280-284).
AppendLog(log, line) == IF log_writable THEN Append(log, line) ELSE log

\* Mutant of BatchDue: the checkpoint is due one completion late.
BatchDueStrict(n) == n > save_batch_size

\* if processed_in_batch >= save_batch_size (line 262)
BatchDue(n) == n >= save_batch_size

\* Mutant of MergeException: no except clause, the exception leaves
\* process_zipcodes.
MergeExceptionEscapes(t) ==
    /\ mpc' = "crashed"
    /\ completed' = completed \cup {t}
    /\ UNCHANGED <<results, total_failed, failed_zipcodes_log, processed_in_batch,
                   output_json_file>>

\* Mutant of MergeException: the exception is logged and the key is not
\* recorded.
MergeExceptionDropsKey(t) ==
    /\ total_failed' = total_failed + 1
    /\ failed_zipcodes_log' =
           AppendLog(failed_zipcodes_log, LogLine(zipcodes_to_process[t], TRUE))
    /\ completed' = completed \cup {t}
    /\ UNCHANGED <<results, mpc, processed_in_batch, output_json_file>>

\* except Exception (lines 273-285): future.result() raised for task t; the
\* key is marked failed and logged, the batch counter is left alone.
MergeException(t) ==
    LET zipcode == zipcodes_to_process[t] IN
    /\ results' = Put(results, zipcode, Null)
    /\ total_failed' = total_failed + 1
    /\ failed_zipcodes_log' = AppendLog(failed_zipcodes_log, LogLine(zipcode, TRUE))
    /\ completed' = completed \cup {t}
    /\ UNCHANGED <<mpc, processed_in_batch, output_json_file>>

\* Mutant of MergeResult: the counter is reset whether or not the checkpoint
\* was written.
MergeResultResetsAlways(t, io) ==
    LET zipcode == zipcodes_to_process[t]
        crime_data == future[t]
        merged == Put(results, zipcode, crime_data)
        n == processed_in_batch + 1
    IN /\ results' = merged
       /\ IF crime_data # Null
          THEN UNCHANGED <<total_failed, failed_zipcodes_log>>
          ELSE /\ total_failed' = total_failed + 1
               /\ failed_zipcodes_log' =
                      AppendLog(failed_zipcodes_log, LogLine(zipcode, FALSE))
       /\ IF BatchDue(n)
          THEN /\ output_json_file' = WriteFile(output_json_file, merged, io)
               /\ processed_in_batch' = 0
          ELSE /\ io = "ok"
               /\ processed_in_batch' = n
               /\ UNCHANGED output_json_file
       /\ completed' = completed \cup {t}
       /\ UNCHANGED mpc

\* Lines 241-270: future.result() returned crime_data for task t; io is the
\* outcome of the checkpoint write, when one is due.
MergeResult(t, io) ==
    LET zipcode == zipcodes_to_process[t]
        crime_data == future[t]
        merged == Put(results, zipcode, crime_data)
        n == processed_in_batch + 1
    IN /\ results' = merged
       /\ IF crime_data # Null
          THEN UNCHANGED <<total_failed, failed_zipcodes_log>>
          ELSE /\ total_failed' = total_failed + 1
               /\ failed_zipcodes_log' =
                      AppendLog(failed_zipcodes_log, LogLine(zipcode, FALSE))
       /\ IF BatchDue(n)
          THEN /\ output_json_file' = WriteFile(output_json_file, merged, io)
               /\ processed_in_batch' = IF io = "ok" THEN 0 ELSE n
          ELSE /\ io = "ok"
               /\ processed_in_batch' = n
               /\ UNCHANGED output_json_file
       /\ completed' = completed \cup {t}
       /\ UNCHANGED mpc

\* One iteration of the as_completed loop (lines 235-285) for a future that
\* has completed: t's outcome is merged under the lock.
Merge(t, io) ==
    /\ mpc = "loop"
    /\ t \in Tasks \ completed
    /\ pc[t] \in {"finished", "raised"}
    /\ IF pc[t] = "raised"
       THEN io = "ok" /\ MergeException(t)
       ELSE MergeResult(t, io)
    /\ UNCHANGED <<zipcodes_to_process, processed_count, returned, final_save, loaded>>
    /\ UNCHANGED <<inputVars, taskVars>>

\* Lines 291-304, once the loop has consumed every future: the final save
\* (io is its outcome) and the return.
FinalSave(io) ==
    /\ mpc = "loop"
    /\ completed = Tasks
    /\ output_json_file' = WriteFile(output_json_file, results, io)
    /\ final_save' = io
    /\ returned' = results
    /\ mpc' = "done"
    /\ UNCHANGED failed_zipcodes_log
    /\ UNCHANGED <<results, zipcodes_to_process, processed_count, processed_in_batch,
                   total_failed, completed, loaded>>
    /\ UNCHANGED <<inputVars, taskVars>>

\* ------------------------------------------------------------ specification
\* Lists of at most n raw keys.
RECURSIVE ListsUpTo(_)
ListsUpTo(n) ==
    IF n = 0 THEN {<< >>}
    ELSE LET shorter == ListsUpTo(n - 1)
         IN shorter \cup {Append(l, r) : l \in {s \in shorter : Len(s) = n - 1}, r \in RawKeys}

\* Optional[int] for last_page: << >> is float('inf'), <<n>> the int n.
Infinity == << >>

\* search_properties of app/zillow.py is not called: its locals do not exist.
SearchNotCalled ==
    /\ use_proxy = TRUE
    /\ total_pages = 1
    /\ page = 1
    /\ last_page = Infinity
    /\ search_results = [listResults |-> << >>, mapResults |-> << >>]
    /\ spc = "idle"
    /\ requested = << >>

\* The threads of a process, and a lock that no thread holds.
Free == << >>
MainThread == <<"main">>
Worker(t) == <<"worker", t>>
Caller(c) == <<"caller", c>>
Flusher == <<"flusher">>

\* Both locks as created (threading.Lock()), no future handed over.
LocksFree ==
    /\ lock = Free
    /\ cache_lock = Free
    /\ yielded = 0

\* app/details.py is not imported by a run of crimegrade_search.py: its
\* state stays as before the import.
DetailsNotImported ==
    /\ cache_file = Missing
    /\ cache = EmptyDict
    /\ cache_dirty = FALSE
    /\ proc = "import"
    /\ cpc = << >>
    /\ czpid = << >>
    /\ cdetails = << >>
    /\ creturn = << >>
    /\ calls = 0
    /\ http_log = << >>
    /\ flushes = 0
    /\ exit_save = "none"

\* The state at the call of process_zipcodes (lines 185-190).
Init ==
    /\ zipcodes \in ListsUpTo(MaxKeys)
    /\ max_workers \in WorkerCounts
    /\ save_batch_size \in BatchSizes
    /\ credentials \in BOOLEAN
    /\ log_writable \in BOOLEAN
    /\ output_json_file \in StoredFiles
    /\ failed_zipcodes_log = << >>
    /\ mpc = "start"
    /\ results = EmptyDict
    /\ loaded = EmptyDict
    /\ zipcodes_to_process = << >>
    /\ processed_count = 0
    /\ processed_in_batch = 0
    /\ total_failed = 0
    /\ completed = {}
    /\ returned = EmptyDict
    /\ final_save = "none"
    /\ pc = << >>
    /\ retry_count = << >>
    /\ future = << >>
    /\ trace = << >>
    /\ waits = << >>
    /\ fetched = << >>
    /\ writes = << >>
    /\ DetailsNotImported
    /\ SearchNotCalled
    /\ LocksFree

WorkerStart == \E t \in Tasks : StartWorker(t) /\ UNCHANGED <<histVars, cacheVars, searchVars, lockVars>>
WorkerAttempt ==
    \E t \in Tasks :
        /\ pc[t] = "request"
        /\ \E e \in {WorkerEnd(o, retry_count[t]) : o \in Outcomes} :
               WorkerStep(t, e) /\ UNCHANGED <<histVars, cacheVars, searchVars, lockVars>>
MainLoad == LoadExisting /\ UNCHANGED <<histVars, cacheVars, searchVars, lockVars>>
MainReturnEarly == ReturnNothingToDo /\ UNCHANGED <<histVars, cacheVars, searchVars, lockVars>>
MainSubmit == Submit /\ UNCHANGED <<histVars, cacheVars, searchVars, lockVars>>
MainMerge ==
    \E t \in Tasks, io \in IOOutcomes : Merge(t, io) /\ UNCHANGED <<histVars, cacheVars, searchVars, lockVars>>
MainFinalSave == \E io \in IOOutcomes : FinalSave(io) /\ UNCHANGED <<histVars, cacheVars, searchVars, lockVars>>

Next ==
    \/ MainLoad
    \/ MainReturnEarly
    \/ MainSubmit
    \/ WorkerStart
    \/ WorkerAttempt
    \/ MainMerge
    \/ MainFinalSave

Spec == Init /\ [][Next]_vars

\* Runs of process_zipcodes in which every thread that can take a step
\* eventually takes one: requests.get returns or raises (timeout=60, line 59),
\* time.sleep ends, the pool hands queued futures to free threads and
\* as_completed yields every completed future. The runs start without a
\* results file, with a writable failure log and save_batch_size = 1; the
\* requested list, the pool size, the credentials and every HTTP and write
\* outcome vary as in Spec.
InitLive ==
    /\ Init
    /\ output_json_file = Missing
    /\ log_writable
    /\ save_batch_size = 1

SpecLive == InitLive /\ [][Next]_vars /\ WF_vars(Next)

\* Runs of process_zipcodes with the writes of the results file recorded:
\* writes holds the outcome of every open(output_json_file, 'w') + json.dump
\* the run has made (lines 264-266 and 298-300), in order. The credentials
\* are set, the failure log is writable and the results file is absent or
\* holds a record for the key "1"; list, pool size, batch size and every HTTP
\* and write outcome vary as in Spec.
InitSave ==
    /\ Init
    /\ credentials
    /\ log_writable
    /\ output_json_file.state # "corrupt"
    /\ LoadResults(output_json_file) \in {EmptyDict} \cup [{<<"1">>} -> StoredRecords]

\* The merge of task t writes the file: its future returned and the counter
\* reaches save_batch_size (line 262).
WriteDue(t) == pc[t] = "finished" /\ BatchDue(processed_in_batch + 1)

SaveMerge ==
    \E t \in Tasks, io \in IOOutcomes :
        /\ Merge(t, io)
        /\ writes' = IF WriteDue(t) THEN Append(writes, io) ELSE writes
        /\ UNCHANGED <<trace, waits, fetched, cacheVars, searchVars, lockVars>>
SaveFinalSave ==
    \E io \in IOOutcomes :
        /\ FinalSave(io)
        /\ writes' = Append(writes, io)
        /\ UNCHANGED <<trace, waits, fetched, cacheVars, searchVars, lockVars>>

NextSave ==
    \/ MainLoad
    \/ MainReturnEarly
    \/ MainSubmit
    \/ WorkerStart
    \/ WorkerAttempt
    \/ SaveMerge
    \/ SaveFinalSave

SpecSave == InitSave /\ [][NextSave]_vars

\* Runs of process_zipcodes with the requests recorded: trace holds, for
\* every requests.get of the run in order, the task that sent it and what
\* search_crime_grade made of the answer: "failed" when a 200 came back and
\* the parse returned None (lines 130-135, 165-168, 172-176), "ok" when the
\* parse returned a record, "none" when nothing was parsed. The runs start as
\* those of SpecLive, with the credentials set.
Parsed(o, rc) ==
    LET e == AttemptEnd(o, rc) IN
    IF e.next = "return" /\ ~NotSuccessful(e.value)
    THEN IF ParseBody(o.body) = Null THEN "failed" ELSE "ok"
    ELSE "none"

InitParse == InitLive /\ credentials

ParseAttempt ==
    \E t \in Tasks, o \in Outcomes :
        /\ HttpAttempt(t, o)
        /\ trace' = Append(trace, [task |-> t, parsed |-> Parsed(o, retry_count[t])])
        /\ UNCHANGED <<waits, fetched, writes, cacheVars, searchVars, lockVars>>

NextParse ==
    \/ MainLoad
    \/ MainReturnEarly
    \/ MainSubmit
    \/ WorkerStart
    \/ ParseAttempt
    \/ MainMerge
    \/ MainFinalSave

SpecParse == InitParse /\ [][NextParse]_vars

\* One call of search_crime_grade("1") on its own thread: the state of a run
\* with that single future submitted, the attempts and waits recorded.
InitFetch ==
    /\ zipcodes = <<RawStr(<<"1">>)>>
    /\ max_workers = 1
    /\ save_batch_size = 1
    /\ credentials \in BOOLEAN
    /\ log_writable = TRUE
    /\ output_json_file = Missing
    /\ failed_zipcodes_log = << >>
    /\ mpc = "loop"
    /\ results = EmptyDict
    /\ loaded = EmptyDict
    /\ zipcodes_to_process = << <<"1">> >>
    /\ processed_count = 0
    /\ processed_in_batch = 0
    /\ total_failed = 0
    /\ completed = {}
    /\ returned = EmptyDict
    /\ final_save = "none"
    /\ pc = <<"queued">>
    /\ retry_count = <<0>>
    /\ future = <<Null>>
    /\ trace = << >>
    /\ waits = << >>
    /\ fetched = << >>
    /\ writes = << >>
    /\ DetailsNotImported
    /\ SearchNotCalled
    /\ LocksFree

FetchStart ==
    /\ StartWorker(1)
    /\ fetched' = IF credentials THEN fetched ELSE <<NoResponse>>
    /\ UNCHANGED <<trace, waits, writes, cacheVars, searchVars, lockVars>>
FetchAttempt ==
    \E o \in Outcomes, j \in Jitters :
        /\ HttpAttempt(1, o)
        /\ trace' = Append(trace, o)
        /\ LET e == AttemptEnd(o, retry_count[1]) IN
           /\ waits' = IF e.next = "sleep"
                       THEN Append(waits, WaitTime(o, retry_count[1], j))
                       ELSE waits
           /\ fetched' = IF e.next = "return" THEN <<e.value>> ELSE fetched
        /\ UNCHANGED <<writes, cacheVars, searchVars, lockVars>>

NextFetch ==
    \/ FetchStart
    \/ FetchAttempt

SpecFetch == InitFetch /\ [][NextFetch]_vars

\* ------------------------------------------------------- app/details.py
\* Calls of get_property_details_by_zpid a process makes, and calls of
\* save_school_cache besides the one atexit makes.
MaxCalls == 3
MaxFlushes == 2

\* The threads that call get_property_details_by_zpid (the default executor
\* of get_property_details_by_zpid_async runs the calls on pool threads).
Callers == {1, 2}

\* The zpid arguments tried (zpid: int | str).
ZpidArgs == {RawInt(1), RawStr(<<"1">>), RawStr(<<"2">>)}

\* The empty dict {} the parser returns when it finds nothing.
EmptyRecord == "{}"

\* A file whose bytes are not text in the default encoding: f.read() inside
\* json.load raises UnicodeDecodeError, a ValueError that is neither a
\* JSONDecodeError nor an IOError.
Undecodable == [state |-> "undecodable", data |-> EmptyDict]

\* json.load raises an exception the except clause of the load (line 63)
\* does not catch.
LoadRaises(f) == f.state = "undecodable"

\* The school cache file before the import: absent, not JSON or not
\* readable (Corrupt), not decodable, or holding a record for zpid "1".
CacheFiles ==
    { Missing, Corrupt, Undecodable }
      \cup { JsonDump(Put(EmptyDict, <<"1">>, v)) : v \in StoredRecords }

\* What requests.get of details.py can end in; a 2xx body is a property
\* page ("page", "page2": the same property fetched at two times), a page
\* without the data ("captcha") or a page whose JSON does not parse
\* ("garbage").
DetailBodies == {"page", "page2", "captcha", "garbage"}
DetailOutcomes ==
    { [kind |-> "response", status |-> 200, body |-> b] : b \in DetailBodies }
      \cup { [kind |-> "response", status |-> st, body |-> ""] : st \in {204, 404, 429, 500} }
      \cup { [kind |-> k, status |-> 0, body |-> ""] :
               k \in {"timeout", "error", "unexpected"} }

\* _parse_property_data(body): the property dict, {} when a piece is
\* missing (lines 159-161, 180-193), or the exception of loads() at line 165.
ParsePropertyData(body) ==
    CASE body = "page" -> "B"
      [] body = "page2" -> "C"
      [] body = "garbage" -> "raise"
      [] OTHER -> EmptyRecord

\* get_property_details_by_url (lines 249-252, 137-151): raise_for_status()
\* raises for a status >= 400, every exception is re-raised, any other
\* response is parsed.
DetailsByUrl(o) ==
    IF o.kind # "response" \/ o.status >= 400 THEN "raise"
    ELSE ParsePropertyData(o.body)

\* Mutant of CacheLookup: the lookup never finds the entry.
CacheLookupMiss(z) == Null

\* _cache.get(zpid) (line 89)
CacheLookup(z) == IF z \in DOMAIN cache THEN cache[z] ELSE Null

\* Mutant of Truthy: the test is "details is not None", which {} passes.
TruthyNotNone(d) == d # Null

\* if details: (line 233)
Truthy(d) == d \notin {EmptyRecord, Null}

\* _init_cache() at module load (lines 55-67, 106), then the process runs;
\* an exception that leaves _init_cache ends the import and the process.
InitCache ==
    /\ proc = "import"
    /\ IF LoadRaises(cache_file)
       THEN proc' = "crashed" /\ UNCHANGED cache
       ELSE proc' = "running" /\ cache' = LoadResults(cache_file)
    /\ UNCHANGED <<cache_file, cache_dirty, cpc, czpid, cdetails, creturn,
                   calls, http_log, flushes, exit_save>>
    /\ UNCHANGED <<crimeVars, searchVars>>


\* A caller thread enters get_property_details_by_zpid(arg): zpid_str =
\* str(zpid) (line 219).
CallStart(c, arg) ==
    /\ proc = "running"
    /\ cpc[c] = "idle"
    /\ calls < MaxCalls
    /\ calls' = calls + 1
    /\ czpid' = [czpid EXCEPT ![c] = PyStr(arg)]
    /\ cpc' = [cpc EXCEPT ![c] = "get"]
    /\ creturn' = [creturn EXCEPT ![c] = "none"]
    /\ UNCHANGED <<cache_file, cache, cache_dirty, proc, cdetails, http_log, flushes, exit_save>>
    /\ UNCHANGED <<inputVars, fileVars, mainVars, taskVars, waits, fetched, writes>>
    /\ UNCHANGED searchVars

\* cached = _cache_get(zpid_str) under the lock, then the test of line 223:
\* a hit returns cached, a miss goes on to the fetch.
CacheGet(c) ==
    /\ cpc[c] = "get"
    /\ LET cached == CacheLookup(czpid[c]) IN
       IF cached # Null
       THEN /\ creturn' = [creturn EXCEPT ![c] = cached]
            /\ cpc' = [cpc EXCEPT ![c] = "idle"]
       ELSE /\ cpc' = [cpc EXCEPT ![c] = "fetch"]
            /\ UNCHANGED creturn
    /\ UNCHANGED <<cache_file, cache, cache_dirty, proc, czpid, cdetails,
                   calls, http_log, flushes, exit_save>>
    /\ UNCHANGED <<crimeVars, searchVars>>

\* Mutant of FetchDetails: a 429, a 5xx or a timeout is followed by another
\* request of the same call.
FetchDetailsRetries(c, o) ==
    /\ cpc[c] = "fetch"
    /\ LET d == IF credentials THEN DetailsByUrl(o) ELSE "raise"
           again == /\ credentials
                    /\ \/ o.kind = "timeout"
                       \/ o.kind = "response" /\ (o.status = 429 \/ o.status >= 500)
       IN
       /\ http_log' = IF credentials THEN Append(http_log, czpid[c]) ELSE http_log
       /\ IF again
          THEN UNCHANGED <<cpc, cdetails, creturn>>
          ELSE IF d # "raise" /\ Truthy(d)
               THEN /\ cdetails' = [cdetails EXCEPT ![c] = d]
                    /\ cpc' = [cpc EXCEPT ![c] = "set"]
                    /\ UNCHANGED creturn
               ELSE /\ creturn' = [creturn EXCEPT ![c] = d]
                    /\ cpc' = [cpc EXCEPT ![c] = "idle"]
                    /\ UNCHANGED cdetails
    /\ UNCHANGED <<cache_file, cache, cache_dirty, proc, czpid, calls, flushes, exit_save>>
    /\ UNCHANGED <<inputVars, fileVars, mainVars, taskVars, waits, fetched, writes>>
    /\ UNCHANGED searchVars

\* details = get_property_details_by_url(home_url) (lines 229-230): without
\* credentials RuntimeError is raised before any request (lines 128-129);
\* otherwise one requests.get is sent and ends in o. An exception leaves the
\* call; falsy details are returned as they are (lines 233, 236).
FetchDetails(c, o) ==
    /\ cpc[c] = "fetch"
    /\ LET d == IF credentials THEN DetailsByUrl(o) ELSE "raise" IN
       /\ http_log' = IF credentials THEN Append(http_log, czpid[c]) ELSE http_log
       /\ IF d # "raise" /\ Truthy(d)
          THEN /\ cdetails' = [cdetails EXCEPT ![c] = d]
               /\ cpc' = [cpc EXCEPT ![c] = "set"]
               /\ UNCHANGED creturn
          ELSE /\ creturn' = [creturn EXCEPT ![c] = d]
               /\ cpc' = [cpc EXCEPT ![c] = "idle"]
               /\ UNCHANGED cdetails
    /\ UNCHANGED <<cache_file, cache, cache_dirty, proc, czpid, calls, flushes, exit_save>>
    /\ UNCHANGED <<inputVars, fileVars, mainVars, taskVars, waits, fetched, writes>>
    /\ UNCHANGED searchVars

\* _cache_set(zpid_str, details) under the lock (lines 92-97), then return
\* details (line 236).
CacheSet(c) ==
    /\ cpc[c] = "set"
    /\ cache' = Put(cache, czpid[c], cdetails[c])
    /\ cache_dirty' = TRUE
    /\ creturn' = [creturn EXCEPT ![c] = cdetails[c]]
    /\ cdetails' = [cdetails EXCEPT ![c] = Null]
    /\ cpc' = [cpc EXCEPT ![c] = "idle"]
    /\ UNCHANGED <<cache_file, proc, czpid, calls, http_log, flushes, exit_save>>
    /\ UNCHANGED <<crimeVars, searchVars>>

\* Mutant of SaveCacheToDisk: no test of the dirty flag.
SaveCacheAlways(io) ==
    /\ cache_file' = WriteFile(cache_file, cache, io)
    /\ cache_dirty' = IF io = "ok" THEN FALSE ELSE cache_dirty
    /\ UNCHANGED cache

\* Mutant of SaveCacheToDisk: the flag is cleared before the write is tried.
SaveCacheClearsFlag(io) ==
    IF ~cache_dirty
    THEN io = "ok" /\ UNCHANGED <<cache_file, cache_dirty, cache>>
    ELSE /\ cache_file' = WriteFile(cache_file, cache, io)
         /\ cache_dirty' = FALSE
         /\ UNCHANGED cache

\* _save_cache_to_disk() (lines 70-83) under the lock; io is the outcome of
\* mkdir + open(CACHE_FILE, "w") + json.dump when the cache is dirty.
SaveCacheToDisk(io) ==
    IF ~cache_dirty
    THEN io = "ok" /\ UNCHANGED <<cache_file, cache_dirty, cache>>
    ELSE /\ cache_file' = WriteFile(cache_file, cache, io)
         /\ cache_dirty' = IF io = "ok" THEN FALSE ELSE cache_dirty
         /\ UNCHANGED cache

\* save_school_cache() (lines 100-102), called by any thread at any time.
SaveSchoolCache ==
    /\ proc = "running"
    /\ flushes < MaxFlushes
    /\ flushes' = flushes + 1
    /\ \E io \in IOOutcomes : SaveCacheToDisk(io)
    /\ UNCHANGED <<proc, cpc, czpid, cdetails, creturn, calls, http_log, exit_save>>
    /\ UNCHANGED <<crimeVars, searchVars>>

\* Mutant of AtExit: no function is registered with atexit.
AtExitNoHandler ==
    /\ proc = "running"
    /\ \A c \in Callers : cpc[c] = "idle"
    /\ proc' = "exited"
    /\ exit_save' = "none"
    /\ UNCHANGED <<cache_file, cache, cache_dirty>>
    /\ UNCHANGED <<cpc, czpid, cdetails, creturn, calls, http_log, flushes>>
    /\ UNCHANGED <<crimeVars, searchVars>>

\* The interpreter exits with no call in progress, after a run whose calls
\* returned or raised, and runs the function registered at line 109;
\* exit_save is the outcome of its write, "none" when it wrote nothing.
AtExit ==
    /\ proc = "running"
    /\ \A c \in Callers : cpc[c] = "idle"
    /\ proc' = "exited"
    /\ \E io \in IOOutcomes :
          /\ SaveCacheToDisk(io)
          /\ exit_save' = IF cache_dirty THEN io ELSE "none"
    /\ UNCHANGED <<cpc, czpid, cdetails, creturn, calls, http_log, flushes>>
    /\ UNCHANGED <<crimeVars, searchVars>>

\* A process that imports app/details.py and does not run process_zipcodes.
InitDetails ==
    /\ zipcodes = << >>
    /\ max_workers = 1
    /\ save_batch_size = 1
    /\ credentials \in BOOLEAN
    /\ log_writable = TRUE
    /\ output_json_file = Missing
    /\ failed_zipcodes_log = << >>
    /\ mpc = "start"
    /\ results = EmptyDict
    /\ loaded = EmptyDict
    /\ zipcodes_to_process = << >>
    /\ processed_count = 0
    /\ processed_in_batch = 0
    /\ total_failed = 0
    /\ completed = {}
    /\ returned = EmptyDict
    /\ final_save = "none"
    /\ pc = << >>
    /\ retry_count = << >>
    /\ future = << >>
    /\ trace = << >>
    /\ waits = << >>
    /\ fetched = << >>
    /\ writes = << >>
    /\ cache_file \in CacheFiles
    /\ cache = EmptyDict
    /\ cache_dirty = FALSE
    /\ proc = "import"
    /\ cpc = [c \in Callers |-> "idle"]
    /\ czpid = [c \in Callers |-> << >>]
    /\ cdetails = [c \in Callers |-> Null]
    /\ creturn = [c \in Callers |-> "none"]
    /\ calls = 0
    /\ http_log = << >>
    /\ flushes = 0
    /\ exit_save = "none"
    /\ SearchNotCalled
    /\ LocksFree

\* Each block under _cache_lock taken as one step.
DetailsImport == InitCache /\ UNCHANGED lockVars
DetailsCall ==
    \E c \in Callers, arg \in ZpidArgs :
        CallStart(c, arg) /\ UNCHANGED <<trace, lockVars>>
DetailsCacheGet == \E c \in Callers : CacheGet(c) /\ UNCHANGED lockVars
DetailsFetch ==
    \E c \in Callers, o \in DetailOutcomes :
        FetchDetails(c, o) /\ UNCHANGED <<trace, lockVars>>
DetailsCacheSet == \E c \in Callers : CacheSet(c) /\ UNCHANGED lockVars
DetailsFlush == SaveSchoolCache /\ UNCHANGED lockVars
DetailsExit == AtExit /\ UNCHANGED lockVars

NextDetails ==
    \/ DetailsImport
    \/ DetailsCall
    \/ DetailsCacheGet
    \/ DetailsFetch
    \/ DetailsCacheSet
    \/ DetailsFlush
    \/ DetailsExit

SpecDetails == InitDetails /\ [][NextDetails]_vars

\* ------------------------------------------- app/zillow.py search_properties
\* Largest totalPages the server reports.
MaxPages == 3

\* get_proxy_url(): the proxy is used only when USE_PROXY is set and both
\* credentials are; otherwise the requests go out directly.
GetProxyUrl == IF ~use_proxy \/ ~credentials THEN "direct" ELSE "proxy"

\* The listResults and mapResults the server holds for page p.
ListResults(p) == << <<"list", p>> >>
MapResults(p) == << <<"map", p, 1>>, <<"map", p, 2>> >>

\* What the initial page visit can end in (an exception is logged and
\* swallowed), and what a search request can end in: a JSON answer with cat1,
\* a status raise_for_status raises on, or a JSON answer without cat1.
VisitOutcomes == {"ok", "raises"}
SearchOutcomes == {"ok", "http_error", "no_cat1"}

\* while page < last_page, last_page starting as float('inf').
PageLess(p, l) == IF l = Infinity THEN TRUE ELSE p < l[1]

\* search_properties up to the loop: the proxy choice, the initial page
\* visit, the locals (lines 224-262).
SearchStart(o) ==
    /\ spc = "idle"
    /\ requested' = <<[url |-> "original", page |-> 0, via |-> GetProxyUrl,
                       outcome |-> o]>>
    /\ page' = 1
    /\ last_page' = Infinity
    /\ search_results' = [listResults |-> << >>, mapResults |-> << >>]
    /\ spc' = "loop"
    /\ UNCHANGED <<use_proxy, total_pages>>

\* One iteration of the loop (lines 263-289) and the test that follows it;
\* the function returns when the test fails (line 291).
SearchPage(o) ==
    /\ spc = "loop"
    /\ PageLess(page, last_page)
    /\ requested' = Append(requested,
                           [url |-> "search", page |-> page, via |-> GetProxyUrl,
                            outcome |-> o])
    /\ IF o = "ok"
       THEN /\ search_results' =
                   [listResults |-> search_results.listResults \o ListResults(page),
                    mapResults |-> search_results.mapResults \o MapResults(page)]
            /\ last_page' = IF last_page = Infinity THEN <<total_pages>>
                            ELSE last_page
            /\ page' = page + 1
            /\ spc' = IF PageLess(page', last_page') THEN "loop" ELSE "done"
       ELSE /\ spc' = "raised"
            /\ UNCHANGED <<search_results, last_page, page>>
    /\ UNCHANGED <<use_proxy, total_pages>>

\* A process that calls search_properties once.
InitSearch ==
    /\ zipcodes = << >>
    /\ max_workers = 1
    /\ save_batch_size = 1
    /\ credentials \in BOOLEAN
    /\ log_writable = TRUE
    /\ output_json_file = Missing
    /\ failed_zipcodes_log = << >>
    /\ mpc = "start"
    /\ results = EmptyDict
    /\ loaded = EmptyDict
    /\ zipcodes_to_process = << >>
    /\ processed_count = 0
    /\ processed_in_batch = 0
    /\ total_failed = 0
    /\ completed = {}
    /\ returned = EmptyDict
    /\ final_save = "none"
    /\ pc = << >>
    /\ retry_count = << >>
    /\ future = << >>
    /\ trace = << >>
    /\ waits = << >>
    /\ fetched = << >>
    /\ writes = << >>
    /\ DetailsNotImported
    /\ use_proxy \in BOOLEAN
    /\ total_pages \in 1..MaxPages
    /\ page = 1
    /\ last_page = Infinity
    /\ search_results = [listResults |-> << >>, mapResults |-> << >>]
    /\ spc = "idle"
    /\ requested = << >>
    /\ LocksFree

SearchVisit ==
    \E o \in VisitOutcomes : SearchStart(o) /\ UNCHANGED <<crimeVars, cacheVars, lockVars>>
SearchRequest ==
    \E o \in SearchOutcomes : SearchPage(o) /\ UNCHANGED <<crimeVars, cacheVars, lockVars>>

NextSearch ==
    \/ SearchVisit
    \/ SearchRequest

SpecSearch == InitSearch /\ [][NextSearch]_vars

\* Calls of get_property_details_by_zpid with the requests of each call
\* recorded: trace[c] holds the outcome of every requests.get that caller
\* c's current (or last) call has sent. No cache file at the import; the
\* credentials, the arguments and the outcomes vary as in SpecDetails.
InitUrl == InitDetails /\ cache_file = Missing

UrlCall ==
    \E c \in Callers, arg \in ZpidArgs :
        /\ CallStart(c, arg)
        /\ trace' = Put(trace, c, << >>)
        /\ UNCHANGED lockVars
UrlFetch ==
    \E c \in Callers, o \in DetailOutcomes :
        /\ FetchDetails(c, o)
        /\ trace' = Put(trace, c, IF credentials THEN Append(trace[c], o)
                                  ELSE trace[c])
        /\ UNCHANGED lockVars

NextUrl ==
    \/ DetailsImport
    \/ UrlCall
    \/ DetailsCacheGet
    \/ UrlFetch
    \/ DetailsCacheSet

SpecUrl == InitUrl /\ [][NextUrl]_vars

\* ------------------------------------------------------------------- locks
\* The steps of process_zipcodes and of app/details.py with every
\* "with lock:" block entered in a step of its own: a thread takes the lock
\* when it is free, runs the block and leaves it.

\* Mutant of CacheLockExit: the block is left with the lock still held (the
\* "with" wraps what follows as well).
CacheLockKept(c) == cache_lock = Caller(c) /\ UNCHANGED cache_lock

\* The end of "with _cache_lock:" in _cache_get and _cache_set (lines 88-89,
\* 95-97) for caller thread c.
CacheLockExit(c) == cache_lock = Caller(c) /\ cache_lock' = Free

\* "with _cache_lock:" entered by caller thread c in _cache_get or _cache_set.
CacheLockEnter(c) ==
    /\ cpc[c] \in {"get", "set"}
    /\ cache_lock = Free
    /\ cache_lock' = Caller(c)
    /\ UNCHANGED <<lock, yielded>>
    /\ UNCHANGED <<crimeVars, cacheVars, searchVars>>

LockedCacheGet(c) == CacheGet(c) /\ CacheLockExit(c) /\ UNCHANGED <<lock, yielded>>
LockedCacheSet(c) == CacheSet(c) /\ CacheLockExit(c) /\ UNCHANGED <<lock, yielded>>

\* get_property_details_by_url called between the two blocks (line 230).
UnlockedFetch(c, o) == FetchDetails(c, o) /\ UNCHANGED <<trace, lockVars>>

\* save_school_cache() on a thread of its own: "with _cache_lock:" of
\* _save_cache_to_disk entered (line 73), then the block.
FlushEnter ==
    /\ proc = "running"
    /\ flushes < MaxFlushes
    /\ cache_lock = Free
    /\ cache_lock' = Flusher
    /\ UNCHANGED <<lock, yielded>>
    /\ UNCHANGED <<crimeVars, cacheVars, searchVars>>

LockedFlush ==
    /\ cache_lock = Flusher
    /\ SaveSchoolCache
    /\ cache_lock' = Free
    /\ UNCHANGED <<lock, yielded>>

\* The exit handler runs when no other thread is left: the lock is free and
\* stays with the main thread for the whole of _save_cache_to_disk.
ExitFlush == cache_lock = Free /\ AtExit /\ UNCHANGED lockVars

\* as_completed hands future t to the main thread, future.result() returns
\* or raises, and the main thread enters "with lock:" (lines 244, 277).
MergeEnter(t) ==
    /\ mpc = "loop"
    /\ t \in Tasks \ completed
    /\ pc[t] \in {"finished", "raised"}
    /\ lock = Free
    /\ yielded = 0
    /\ lock' = MainThread
    /\ yielded' = t
    /\ UNCHANGED cache_lock
    /\ UNCHANGED <<crimeVars, cacheVars, searchVars>>

\* The block of lines 244-270 or 277-284 for the future handed over.
LockedMerge ==
    /\ lock = MainThread
    /\ yielded # 0
    /\ \E io \in IOOutcomes : Merge(yielded, io)
    /\ lock' = Free
    /\ yielded' = 0
    /\ UNCHANGED <<histVars, cacheVars, searchVars, cache_lock>>

\* "with lock:" of the final save entered (line 293), then the block.
FinalEnter ==
    /\ mpc = "loop"
    /\ completed = Tasks
    /\ lock = Free
    /\ lock' = MainThread
    /\ UNCHANGED <<cache_lock, yielded>>
    /\ UNCHANGED <<crimeVars, cacheVars, searchVars>>

LockedFinalSave ==
    /\ lock = MainThread
    /\ yielded = 0
    /\ \E io \in IOOutcomes : FinalSave(io)
    /\ lock' = Free
    /\ UNCHANGED <<histVars, cacheVars, searchVars, cache_lock, yielded>>

\* A process is a run of process_zipcodes (as in SpecLive, credentials set)
\* or one that imports app/details.py with the credentials set and no cache
\* file.
InitLock ==
    \/ InitLive /\ credentials
    \/ InitDetails /\ credentials /\ cache_file = Missing

\* The caller threads exist only in the process that imports app/details.py.
LockImport == cpc # << >> /\ DetailsImport
LockCall == cpc # << >> /\ DetailsCall
LockCacheEnter == \E c \in DOMAIN cpc : CacheLockEnter(c)
LockCacheGet == \E c \in DOMAIN cpc : LockedCacheGet(c)
LockCacheSet == \E c \in DOMAIN cpc : LockedCacheSet(c)
LockFetch == \E c \in DOMAIN cpc, o \in DetailOutcomes : UnlockedFetch(c, o)
LockMergeEnter == \E t \in Tasks : MergeEnter(t)

NextLock ==
    \/ MainLoad
    \/ MainReturnEarly
    \/ MainSubmit
    \/ WorkerStart
    \/ WorkerAttempt
    \/ LockMergeEnter
    \/ LockedMerge
    \/ FinalEnter
    \/ LockedFinalSave
    \/ LockImport
    \/ LockCall
    \/ LockCacheEnter
    \/ LockCacheGet
    \/ LockFetch
    \/ LockCacheSet
    \/ FlushEnter
    \/ LockedFlush
    \/ ExitFlush

SpecLock == InitLock /\ [][NextLock]_vars

\* ------------------------------------------------------------------- claims
\* The key of each submitted future, and the keys of the requested list: its
\* elements after str() and strip(), the blank ones (skipped at line 209) left
\* out.
KeyOf(t) == zipcodes_to_process[t]
RequestedKeys ==
    {Normalize(zipcodes[i]) : i \in 1..Len(zipcodes)} \ {<< >>}

\* search_crime_grade has been called for task t.
Invoked(t) == pc[t] # "queued"

\* C1: a key loaded as Success is never handed to the worker, and its entry
\* in the store, in the returned store and in the results file, whenever the
\* file holds a mapping, is the loaded record.
C1_SuccessKeptAndNotRefetched ==
    \A k \in DOMAIN loaded :
        loaded[k] # Null =>
            /\ \A t \in Tasks : Invoked(t) => KeyOf(t) # k
            /\ k \in DOMAIN results /\ results[k] = loaded[k]
            /\ mpc = "done" => (k \in DOMAIN returned /\ returned[k] = loaded[k])
            /\ output_json_file.state = "ok" =>
                   /\ k \in DOMAIN output_json_file.data
                   /\ output_json_file.data[k] = loaded[k]

\* Scenario B has run to its end: a stored Success key was requested again
\* beside a new key, and the final save wrote the file.
C1_Witness ==
    /\ mpc = "done"
    /\ final_save = "ok"
    /\ \E k \in DOMAIN loaded :
          /\ loaded[k] # Null
          /\ k \in RequestedKeys
          /\ \E t \in Tasks : KeyOf(t) # k /\ returned[KeyOf(t)] # Null

\* C2: a key loaded as null (attempted, failed) is not handed to the worker
\* and its entry stays null.
C2_NullKeySkipped ==
    \A k \in DOMAIN loaded :
        loaded[k] = Null =>
            /\ \A t \in Tasks : Invoked(t) => KeyOf(t) # k
            /\ k \in DOMAIN results /\ results[k] = Null

\* The failure kinds the retry policy retries: 429, 5xx, timeout.
Retryable(o) ==
    \/ o.kind = "timeout"
    \/ o.kind = "response" /\ (o.status = 429 \/ (o.status >= 500 /\ o.status <= 599))

\* A 403, a 4xx other than 429, or a request error other than a timeout.
Terminal(o) ==
    \/ o.kind = "error"
    \/ o.kind = "response" /\ o.status >= 400 /\ o.status <= 499 /\ o.status # 429

AllRetryable(n) == \A i \in 1..n : Retryable(trace[i])

\* The call of _make_brightdata_request is over: it returned, or raised.
Returned == pc[1] = "finished"
Ended == pc[1] \in {"finished", "raised"}

\* C3: one call issues at most MAX_RETRIES + 1 requests; a call all of whose
\* attempts ended in a retryable failure issued exactly MAX_RETRIES + 1 and
\* returned None.
C3_BoundedAttempts ==
    /\ Len(trace) <= MAX_RETRIES + 1
    /\ (Ended /\ trace # << >> /\ AllRetryable(Len(trace))) =>
           (Len(trace) = MAX_RETRIES + 1 /\ fetched = <<NoResponse>>)

C3_Witness ==
    /\ Ended
    /\ Len(trace) = MAX_RETRIES + 1
    /\ AllRetryable(Len(trace))
    /\ \E i, j \in 1..Len(trace) : trace[i].kind # trace[j].kind
    /\ fetched = <<NoResponse>>

\* C4 as claimed: once the first MAX_RETRIES attempts have all ended in a
\* retryable failure the call returns None, whatever a further attempt gives.
C4_CappedAtMaxRetries ==
    (Returned /\ Len(trace) >= MAX_RETRIES /\ AllRetryable(MAX_RETRIES)) =>
        fetched = <<NoResponse>>

\* C4 amended: once the first MAX_RETRIES + 1 attempts have all ended in a
\* retryable failure the call has returned None and makes no further attempt:
\* the cap is MAX_RETRIES retries, MAX_RETRIES + 1 attempts.
C4_CappedAtMaxRetriesPlusOne ==
    (Len(trace) >= MAX_RETRIES + 1 /\ AllRetryable(MAX_RETRIES + 1)) =>
        /\ Returned
        /\ fetched = <<NoResponse>>
        /\ Len(trace) = MAX_RETRIES + 1

C4_Witness ==
    /\ Len(trace) = MAX_RETRIES + 1
    /\ AllRetryable(MAX_RETRIES + 1)
    /\ trace[MAX_RETRIES + 1].kind = "response"
    /\ Returned

\* C5: after k < MAX_RETRIES retryable failures the call is at its request
\* k + 1, and when that request answers 200 the call returns that response
\* and requests nothing more.
C5_SuccessAfterFailures ==
    /\ (trace # << >> /\ Len(trace) < MAX_RETRIES /\ AllRetryable(Len(trace))) =>
           (pc[1] = "request" /\ retry_count[1] = Len(trace))
    /\ \A k \in 0..(MAX_RETRIES - 1) :
           (/\ Len(trace) = k + 1
            /\ AllRetryable(k)
            /\ trace[k + 1].kind = "response"
            /\ trace[k + 1].status = 200) =>
               (Returned /\ fetched = <<Response(trace[k + 1])>>)

C5_Witness ==
    /\ Len(trace) = MAX_RETRIES
    /\ AllRetryable(MAX_RETRIES - 1)
    /\ trace[1].kind # trace[2].kind
    /\ trace[MAX_RETRIES].status = 200
    /\ fetched = <<Response(trace[MAX_RETRIES])>>

\* C6: a terminal failure is the last attempt of its call, at whatever retry
\* count it comes: the call has returned None, and no backoff wait followed
\* the attempt (every wait belongs to an earlier attempt).
C6_TerminalFailureEndsFetch ==
    \A i \in 1..Len(trace) :
        Terminal(trace[i]) =>
            /\ i = Len(trace)
            /\ Returned
            /\ fetched = <<NoResponse>>
            /\ Len(waits) = Len(trace) - 1

C6_Witness ==
    /\ Len(trace) = MAX_RETRIES
    /\ trace[MAX_RETRIES].kind = "response"
    /\ trace[MAX_RETRIES].status = 403
    /\ Returned

\* C7: no two futures of a run carry the same key (each key is assigned to
\* exactly one task, so the worker runs at most once per key).
C7_OneTaskPerKey ==
    \A t, u \in Tasks : t # u => KeyOf(t) # KeyOf(u)

\* C8: from the load on, a step of the run never removes a key of the store
\* and never replaces the value of a key that is present.
C8_StoreOnlyGrows ==
    [][mpc # "start" =>
          \A k \in DOMAIN results : k \in DOMAIN results' /\ results'[k] = results[k]]_vars

\* The outcome a consumed future carries into the store.
Carried(t) == IF pc[t] = "raised" THEN Null ELSE future[t]

\* C9: a future that raised is consumed like any other. Its key is in the
\* store, every key's entry is the outcome of one of the consumed futures of
\* that key (null for the raised one, the worker's own result for the
\* others), control never leaves the positions of process_zipcodes (the
\* exception does not escape the merge loop), and the run returns only after
\* every future was consumed and the final save attempted.
C9_FaultIsolated ==
    /\ \A t \in completed :
           /\ KeyOf(t) \in DOMAIN results
           /\ results[KeyOf(t)] \in {Carried(u) : u \in {v \in completed : KeyOf(v) = KeyOf(t)}}
    /\ mpc \in {"start", "prepare", "loop", "done"}
    /\ (mpc = "done" /\ Tasks # {}) => (completed = Tasks /\ final_save # "none")

\* One future raised, another returned a record; both were merged and the
\* run ended with the final save written.
C9_Witness ==
    /\ mpc = "done"
    /\ final_save = "ok"
    /\ \E t, u \in Tasks :
          /\ pc[t] = "raised" /\ pc[u] = "finished"
          /\ KeyOf(t) # KeyOf(u)
          /\ returned[KeyOf(t)] = Null
          /\ future[u] # Null /\ returned[KeyOf(u)] = future[u]

\* C10: the store process_zipcodes returns holds an entry for every
\* requested key.
C10_EveryRequestedKeyPresent ==
    mpc = "done" => \A k \in RequestedKeys : k \in DOMAIN returned

\* A run over two keys has returned, one key failed by an exception, the
\* other by a None result, and both have their null entry.
C10_Witness ==
    /\ mpc = "done"
    /\ \E t, u \in Tasks :
          /\ pc[t] = "raised" /\ pc[u] = "finished" /\ future[u] = Null
          /\ KeyOf(t) # KeyOf(u)
          /\ returned[KeyOf(t)] = Null /\ returned[KeyOf(u)] = Null

MergedNow == completed' \ completed
\* Every write of the results file so far has succeeded.
WritesSucceeded == \A i \in DOMAIN writes : writes[i] = "ok"

C13_EveryCompletionCounted ==
    [][MergedNow # {} =>
          \/ processed_in_batch' = processed_in_batch + 1
          \/ /\ processed_in_batch' = 0
             /\ output_json_file' = JsonDump(results')]_vars

\* The step appends a write to the history, and that write failed.
WriteFailedNow ==
    /\ Len(writes') = Len(writes) + 1
    /\ writes'[Len(writes')] # "ok"

\* C14: a failed checkpoint write inside the loop leaves the run in the
\* loop, the store as the merge made it and the counter not reset; while the
\* counter is at or above save_batch_size the merge of the next returned
\* future writes again, and the final save writes whatever came before.
C14_FailedCheckpointRetried ==
    [][/\ \A t \in MergedNow : WriteFailedNow =>
              /\ mpc' = "loop"
              /\ results' = Put(results, KeyOf(t), future[t])
              /\ processed_in_batch' = processed_in_batch + 1
       /\ \A t \in MergedNow :
              (pc[t] = "finished" /\ processed_in_batch >= save_batch_size) =>
                  Len(writes') = Len(writes) + 1
       /\ (mpc = "loop" /\ mpc' = "done") =>
              /\ Len(writes') = Len(writes) + 1
              /\ results' = results]_vars

\* A first checkpoint failed, the merge of the next future wrote the store
\* and reset the counter.
C14_Witness ==
    /\ mpc = "loop"
    /\ Len(writes) = 2
    /\ writes[1] # "ok" /\ writes[2] = "ok"
    /\ processed_in_batch = 0
    /\ Cardinality(completed) = 2
    /\ output_json_file = JsonDump(results)

\* C15: process_zipcodes returns only after the final save has written, or
\* tried to write, the store.
C15_ReturnAfterFinalWrite == mpc = "done" => final_save # "none"

\* The keys merged in this run whose entry a process killed now would lose:
\* the results file does not hold the entry the store holds.
OnDisk(k) ==
    /\ output_json_file.state = "ok"
    /\ k \in DOMAIN output_json_file.data
    /\ output_json_file.data[k] = results[k]
Unsaved == {k \in {KeyOf(t) : t \in completed} : ~OnDisk(k)}

\* C16: as long as every write has succeeded, at most save_batch_size merged
\* keys are missing from the results file.
C16_AtMostBatchUnsaved ==
    WritesSucceeded => Cardinality(Unsaved) <= save_batch_size

\* C17: a step that leaves a new mapping in the results file leaves the whole
\* store there: every key loaded at the start, with its loaded record when
\* that was not null, and the merged outcome of every future consumed so
\* far, the one merged in this step included.
C17_CheckpointHoldsAllMerged ==
    [][(output_json_file' # output_json_file /\ output_json_file'.state = "ok") =>
          /\ output_json_file'.data = results'
          /\ \A k \in DOMAIN loaded :
                 /\ k \in DOMAIN output_json_file'.data
                 /\ loaded[k] # Null => output_json_file'.data[k] = loaded[k]
          /\ \A t \in completed' :
                 /\ KeyOf(t) \in DOMAIN output_json_file'.data
                 /\ output_json_file'.data[KeyOf(t)] \in
                        {Carried(u) : u \in {v \in completed' : KeyOf(v) = KeyOf(t)}}]_vars

\* A periodic checkpoint of a run that loaded one entry and merged another
\* key holds both.
C17_Witness ==
    /\ mpc = "loop"
    /\ loaded # EmptyDict
    /\ output_json_file = JsonDump(results)
    /\ \E t \in completed : KeyOf(t) \notin DOMAIN loaded
    /\ DOMAIN loaded \subseteq DOMAIN output_json_file.data

\* C18: whatever a step does to the results file, the file then holds the
\* mapping it held before or the whole store as it is after the step.
C18_WriteIsAtomic ==
    [][output_json_file' \in {output_json_file, JsonDump(results')}]_vars

\* The zpids the cache holds a record for.
Cached == {z \in DOMAIN cache : cache[z] # Null}
\* The step is caller c's cache lookup, and the step is caller c's
\* _cache_set.
LooksUp(c) == cpc[c] = "get" /\ cpc'[c] # "get"
Sets(c) == cpc[c] = "set" /\ cpc'[c] # "set"

\* C19: while the cache holds a record for a zpid, a call that looks the
\* zpid up returns that record and sends no request, and no step of a call
\* for another zpid, of a flush or of the exit changes the record.
C19_CachedRecordReturned ==
    [][/\ \A c \in DOMAIN cpc :
              (LooksUp(c) /\ czpid[c] \in Cached) =>
                  /\ cpc'[c] = "idle"
                  /\ creturn'[c] = cache[czpid[c]]
                  /\ http_log' = http_log
                  /\ cache' = cache
       /\ \A z \in Cached :
              (\A c \in DOMAIN cpc : ~(Sets(c) /\ czpid[c] = z)) =>
                  (z \in DOMAIN cache' /\ cache'[z] = cache[z])]_vars

\* Three calls and two requests: the record fetched for "1" was stored, a
\* call for "2" went to the network, and a later call for "1" was answered
\* from the cache.
C19_Witness ==
    /\ calls = 3
    /\ http_log = << <<"1">>, <<"2">> >>
    /\ LoadResults(cache_file) = EmptyDict
    /\ \A c \in Callers : cpc[c] = "idle"
    /\ \E c, d \in Callers :
          /\ czpid[c] = <<"1">> /\ czpid[d] = <<"2">>
          /\ <<"1">> \in Cached /\ creturn[c] = cache[<<"1">>]

\* The step is a call of _save_cache_to_disk: by save_school_cache or at
\* the exit.
Flushes == flushes' = flushes + 1 \/ (proc = "running" /\ proc' = "exited")

\* C20: _cache_set stores the entry and sets the dirty flag. A call of
\* _save_cache_to_disk with the flag clear changes neither the file, the
\* mapping nor the flag. With the flag set it leaves the mapping alone and
\* either the file then holds the whole mapping and the flag is clear, or
\* the write failed, the flag is still set and the file is as it was or
\* unreadable.
C20_DirtyFlagAndFlush ==
    [][/\ \A c \in DOMAIN cpc : Sets(c) =>
              /\ cache_dirty'
              /\ cache' = Put(cache, czpid[c], cdetails[c])
       /\ (Flushes /\ ~cache_dirty) => UNCHANGED <<cache_file, cache, cache_dirty>>
       /\ (Flushes /\ cache_dirty) =>
              /\ cache' = cache
              /\ \/ cache_file' = JsonDump(cache) /\ ~cache_dirty'
                 \/ cache_dirty' /\ cache_file' \in {cache_file, Corrupt}]_vars

\* save_school_cache has written a fetched record: the file holds the
\* mapping and the flag is clear while the process still runs.
C20_Witness ==
    /\ proc = "running"
    /\ flushes >= 1
    /\ ~cache_dirty
    /\ cache_file = JsonDump(cache)
    /\ \E z \in DOMAIN cache : cache[z] \in {"B", "C"}

\* The records a fetch can put into the cache, and the zpids whose entry was
\* put by this process.
FetchedRecords == {ParsePropertyData(b) : b \in DetailBodies} \ {EmptyRecord, "raise"}
PutZpids == {z \in DOMAIN cache : cache[z] \in FetchedRecords}

\* C21: once the process has exited, unless the write made at the exit
\* failed, the cache file holds every entry put during the process.
C21_FlushedAtExit ==
    (proc = "exited" /\ exit_save \in {"none", "ok"}) =>
        \A z \in PutZpids :
            /\ cache_file.state = "ok"
            /\ z \in DOMAIN cache_file.data
            /\ cache_file.data[z] = cache[z]

\* The process has exited after a call that raised and a call that put an
\* entry, with no save_school_cache before: the exit wrote the entry.
C21_Witness ==
    /\ proc = "exited"
    /\ exit_save = "ok"
    /\ flushes = 0
    /\ PutZpids # {}
    /\ cache_file = JsonDump(cache)
    /\ \E c \in Callers : creturn[c] = "raise"

\* C22: the import of app/details.py with a cache file that is there but
\* does not hold a mapping leaves the process running with an empty cache
\* and a clear dirty flag, the state a fresh start without file gives, and
\* the file untouched.
C22_UnreadableFileLoadsEmpty ==
    [][(proc = "import" /\ cache_file.state \notin {"ok", "missing"}) =>
          /\ proc' = "running"
          /\ cache' = EmptyDict
          /\ ~cache_dirty'
          /\ cache_file' = cache_file]_vars

\* The pages search_properties asked the server for, in the order asked.
RequestedPages ==
    LET idx == {i \in 1..Len(requested) : requested[i].url = "search"}
    IN [i \in 1..Cardinality(idx) |-> requested[i + 1].page]

\* The results of pages 1..n, concatenated in page order.
RECURSIVE ListsOfPages(_)
ListsOfPages(n) ==
    IF n = 0 THEN << >> ELSE ListsOfPages(n - 1) \o ListResults(n)
RECURSIVE MapsOfPages(_)
MapsOfPages(n) ==
    IF n = 0 THEN << >> ELSE MapsOfPages(n - 1) \o MapResults(n)

\* C23: when search_properties returns, it has requested each page
\* 1..totalPages once, in increasing order, and returns the results of all of
\* them concatenated in page order.
C23_AllPagesRequested ==
    spc = "done" =>
        /\ RequestedPages = [i \in 1..total_pages |-> i]
        /\ search_results.listResults = ListsOfPages(total_pages)
        /\ search_results.mapResults = MapsOfPages(total_pages)

\* C24: a call whose last attempt was answered with a status in 200..299 made
\* no retry after it, returned that response, and search_crime_grade returned
\* what the parser makes of its body (no failure because of the status).
C24_Any2xxIsOk ==
    (Returned /\ trace # << >>) =>
        LET o == trace[Len(trace)] IN
        (o.kind = "response" /\ o.status >= 200 /\ o.status <= 299) =>
            /\ fetched = <<Response(o)>>
            /\ Len(waits) = Len(trace) - 1
            /\ future[1] = ParseBody(o.body)

\* C25: without proxy credentials a run of process_zipcodes sends no request
\* and ends on the configuration error: no key is merged as a failure and no
\* line is appended to the failure log.
C25_AbsentCredentialsFatal ==
    ~credentials =>
        /\ \A t \in Tasks : pc[t] # "request"
        /\ completed = {}
        /\ failed_zipcodes_log = << >>

\* C26: once the parse of the answer for a key has failed, no request of the
\* run that follows is for that key, and from the merge of that task on the
\* store holds null for the key.
C26_ParseFailureNotRetried ==
    \A i \in 1..Len(trace) :
        trace[i].parsed = "failed" =>
            /\ \A j \in (i + 1)..Len(trace) :
                   KeyOf(trace[j].task) # KeyOf(trace[i].task)
            /\ trace[i].task \in completed =>
                   /\ KeyOf(trace[i].task) \in DOMAIN results
                   /\ results[KeyOf(trace[i].task)] = Null

\* The number of lines of the failure log that name key k.
LinesFor(k) ==
    Cardinality({i \in 1..Len(failed_zipcodes_log) : failed_zipcodes_log[i][1] = k})

\* C27: when a run whose failure log can be appended to has returned, the log
\* holds exactly one line for each processed key that the store maps to null
\* and none for a processed key that the store maps to a record.
C27_OneLinePerFailedKey ==
    (mpc = "done" /\ log_writable) =>
        \A t \in Tasks :
            LinesFor(KeyOf(t)) = IF results[KeyOf(t)] = Null THEN 1 ELSE 0

\* The wait that followed attempt number i (counted from 1) is a flat second
\* after a timeout and 2^(i-1) seconds plus a jitter of lo..hi tenths after a
\* 429 or a 5xx.
BackoffWithin(lo, hi) ==
    \A i \in 1..Len(waits) :
        IF trace[i].kind = "timeout"
        THEN waits[i] = 10
        ELSE /\ trace[i].kind = "response"
             /\ trace[i].status = 429 \/ trace[i].status >= 500
             /\ waits[i] - 10 * 2^(i - 1) \in lo..hi

\* C28 as claimed: the jitter lies in [0.5, 1.5), the end point 1.5 excluded.
C28_BackoffJitterHalfOpen == BackoffWithin(5, 14)

\* C28: the wait before the retry that follows attempt i (0-indexed) is 2^i
\* seconds plus a jitter in [0.5, 1.5], both end points included, after a 429
\* or a 5xx, and a flat second after a timeout; the exponent counts every
\* earlier attempt of the fetch, whatever it ended in.
C28_BackoffWaits == BackoffWithin(5, 15)

C28_Witness ==
    /\ Len(waits) = MAX_RETRIES
    /\ trace[1].kind = "timeout"
    /\ trace[2].status = 429
    /\ trace[3].status = 503
    /\ waits = <<10, 20 + 15, 40 + 5>>

\* C29: a pool thread that is in a request or in a backoff sleep, and a
\* caller thread that is in the request of get_property_details_by_url,
\* holds neither the lock of process_zipcodes nor _cache_lock.
C29_NoNetworkUnderLock ==
    /\ \A t \in Tasks :
           pc[t] = "request" => (lock # Worker(t) /\ cache_lock # Worker(t))
    /\ \A c \in DOMAIN cpc :
           cpc[c] = "fetch" => (lock # Caller(c) /\ cache_lock # Caller(c))

C29_Witness ==
    /\ cpc = <<"fetch", "set">>
    /\ cache_lock = Caller(2)
    /\ http_log # << >>

\* C30: when a run that had K futures to consume has made its final save,
\* it made at least floor(K / save_batch_size) writes of the results file
\* before the final one, and a final write that succeeded left the outcome of
\* every one of the K keys in the file.
C30_IntermediateCheckpoints ==
    (mpc = "done" /\ final_save # "none") =>
        /\ Len(writes) - 1 >= Len(zipcodes_to_process) \div save_batch_size
        /\ final_save = "ok" =>
               /\ output_json_file = JsonDump(results)
               /\ \A t \in Tasks : KeyOf(t) \in DOMAIN results

\* C31: two calls of get_property_details_by_zpid that overlap are never
\* both past a request for the same zpid with the entry still to be written:
\* of concurrent calls for an uncached zpid one sends the request and writes
\* the entry.
C31_OneRequestPerZpid ==
    \A c, d \in DOMAIN cpc :
        (c # d /\ czpid[c] = czpid[d]) => ~(cpc[c] = "set" /\ cpc[d] = "set")

\* The entries of the in-memory mapping that the cache file does not hold
\* with the same value.
NotOnDisk ==
    {z \in DOMAIN cache :
        ~(/\ cache_file.state = "ok"
          /\ z \in DOMAIN cache_file.data
          /\ cache_file.data[z] = cache[z])}

\* C32: whenever _cache_lock is free and the in-memory mapping holds an entry
\* that the cache file does not hold with the same value, the dirty flag is
\* set.
C32_UnsavedImpliesDirty ==
    (cache_lock = Free /\ NotOnDisk # {}) => cache_dirty

\* A flush failed after the truncation: the entry loaded at the import and
\* an entry put since are in memory only, and the flag is still set.
C32_Witness ==
    /\ proc = "running"
    /\ cache_lock = Free
    /\ cache_file = Corrupt
    /\ <<"1">> \in DOMAIN cache /\ cache[<<"1">>] = "A"
    /\ PutZpids # {}
    /\ NotOnDisk = DOMAIN cache
    /\ cache_dirty

\* The step is the end of caller c's get_property_details_by_url.
Fetches(c) == cpc[c] = "fetch" /\ cpc'[c] # "fetch"

\* C33: a fetch that raises or parses to the empty record ends the call with
\* the mapping, the dirty flag and the file as they were; only a non-empty
\* record goes on to _cache_set, so the mapping never holds a failure marker;
\* a later lookup of a zpid without a record goes to the fetch again, which
\* sends a request (whenever the credentials are configured).
C33_FailedFetchNotCached ==
    [][/\ \A c \in DOMAIN cpc :
              (Fetches(c) /\ cpc'[c] = "idle") =>
                  /\ creturn'[c] \in {"raise", EmptyRecord}
                  /\ UNCHANGED <<cache, cache_dirty, cache_file>>
       /\ \A c \in DOMAIN cpc :
              (Fetches(c) /\ cpc'[c] = "set") => cdetails'[c] \in FetchedRecords
       /\ \A z \in DOMAIN cache' : cache'[z] \notin {"raise", EmptyRecord}
       /\ \A c \in DOMAIN cpc :
              (LooksUp(c) /\ czpid[c] \notin Cached) => cpc'[c] = "fetch"
       /\ \A c \in DOMAIN cpc :
              (Fetches(c) /\ credentials) =>
                  http_log' = Append(http_log, czpid[c])]_vars

\* One thread has called twice for "1": the first call ended in an exception
\* or an empty record, the second sent a request again and came back empty,
\* and the mapping, the flag and the file are as at the import.
C33_Witness ==
    /\ calls = 2
    /\ czpid = << <<"1">>, << >> >>
    /\ cpc = <<"idle", "idle">>
    /\ creturn[1] = EmptyRecord
    /\ http_log = << <<"1">>, <<"1">> >>
    /\ cache = EmptyDict
    /\ ~cache_dirty
    /\ cache_file = Missing

\* What the claim calls a request failure: a 429, a 5xx, any other status
\* raise_for_status raises on, a timeout or another exception of requests.get.
RequestFailed(o) == o.kind # "response" \/ o.status >= 400

\* The end of caller c's get_property_details_by_url found n requests sent
\* by the call, and a request that failed was the only one and left the call
\* at once with the exception.
OneShot(c, n) ==
    Fetches(c) =>
        /\ Len(trace'[c]) = n
        /\ \A i \in 1..Len(trace'[c]) :
               RequestFailed(trace'[c][i]) =>
                   (cpc'[c] = "idle" /\ creturn'[c] = "raise")

\* C34 as claimed: every call of get_property_details_by_url sends exactly
\* one request.
C34_ExactlyOneRequest == [][\A c \in DOMAIN cpc : OneShot(c, 1)]_vars

\* C34: a call of get_property_details_by_url sends exactly one request when
\* the credentials are configured and none when they are not (it raises
\* before any request); a request that ends in a 429, a 5xx, a timeout or
\* any other failure is not retried and the exception leaves the call.
C34_OneRequestNoRetry ==
    [][\A c \in DOMAIN cpc :
          /\ OneShot(c, IF credentials THEN 1 ELSE 0)
          /\ (Fetches(c) /\ ~credentials) => creturn'[c] = "raise"]_vars

\* Both threads have a call behind them whose single request failed, one
\* with a 429 and one with a timeout, and both calls raised.
C34_Witness ==
    /\ DOMAIN trace = Callers
    /\ Len(trace[1]) = 1 /\ trace[1][1].status = 429
    /\ Len(trace[2]) = 1 /\ trace[2][1].kind = "timeout"
    /\ \A c \in Callers : cpc[c] = "idle" /\ creturn[c] = "raise"

====
